---- MODULE Spec2Model ----
(***************************************************************************)
(* A model of the F1 race strategy simulator: RaceStrategySimulator        *)
(* (run_simulation and the methods it calls), RaceAnalysis                 *)
(* (get_driver_race_time, analyze_stint_and_compound_data) and the shell   *)
(* loop of Main.main.                                                      *)
(*                                                                         *)
(* Every input() of the program is a step boundary: an action is the code  *)
(* that runs from one prompt to the next (or to the return / the raise).   *)
(* Lap times are whole seconds, sampled durations are exact rationals of   *)
(* seconds; the uniform deviation of numpy is discretised to thousandths.  *)
(***************************************************************************)
EXTENDS Integers, Sequences, FiniteSets, TLC

VARIABLES
    results,              \* provider: session.results, a sequence of rows
    laps,                 \* provider: session.laps, a sequence of lap records
    analysis,             \* RaceStrategySimulator.analysis is set (not None)
    total_laps,           \* RaceStrategySimulator.total_laps
    driver_code,          \* RaceStrategySimulator.driver_code ("None" = None)
    user_strategy,        \* RaceStrategySimulator.user_strategy
    simulated_lap_times,  \* RaceStrategySimulator.simulated_lap_times
    num_stints,           \* input_strategy: local num_stints
    stint_num,            \* input_strategy: local stint_num
    total_strategy_laps,  \* input_strategy: local total_strategy_laps
    driver_averages,      \* simulate_lap_times: local driver_averages
    actual_race_time,     \* compare_strategy: local actual_race_time
    total_simulated_time, \* compare_strategy: local total_simulated_time
    table,                \* compare_strategy: the printed stint rows
    verdict,              \* compare_strategy: "slower" / "faster" and the difference
    pc,                   \* position of run_simulation
    msg,                  \* the message printed by the last step ("" = none)
    calls,                \* the methods of the simulator entered so far
    completed,            \* the stages of run_simulation that returned normally
    exc,                  \* the exception that left run_simulation ("" = none)
    mpc,                  \* position of Main.main
    year,                 \* Main.main: year (0 = not selected)
    race,                 \* Main.main: race ("" = not selected)
    user_choice,          \* Main.main: user_choice ("" = none yet)
    session,              \* Main.main: session of data_retriever ("None", "empty", "ok")
    gyear,                \* get_race_details: local year (0 = none)
    fetched,              \* years whose calendar this get_race_details call fetched
    loads,                \* load_session executions since the race was selected
    rejected,             \* validate_data rejections since the race was selected
    races_done,           \* iterations of the outer loop of main finished
    mappings,             \* what the last create_driver_mappings call returned
    fastest,              \* what the last get_fastest_lap_data call returned
    stint_data            \* what analyze_stint_and_compound_data returned, and how often

vars == << results, laps, analysis, total_laps, driver_code, user_strategy,
           simulated_lap_times, num_stints, stint_num, total_strategy_laps,
           driver_averages, actual_race_time, total_simulated_time, table,
           verdict, pc, msg, calls, completed, exc,
           mpc, year, race, user_choice, session, gyear, fetched, loads,
           rejected, races_done, mappings, fastest, stint_data >>

simVars == << analysis, total_laps, driver_code, user_strategy,
              simulated_lap_times, num_stints, stint_num, total_strategy_laps,
              driver_averages, actual_race_time, total_simulated_time, table,
              verdict, pc, msg, calls, completed, exc >>

mainVars == << mpc, year, race, user_choice, session, gyear, fetched, loads,
              rejected, races_done >>

\* the variables of main other than the count of load_session executions
shellVars == << mpc, year, race, user_choice, session, gyear, fetched,
               rejected, races_done >>

worldVars == << results, laps >>

\* what the methods of RaceDataRetriever and RaceAnalysis last returned
queryVars == << mappings, fastest, stint_data >>

(***************************************************************************)
(* Bounds of the model.                                                    *)
(***************************************************************************)
RaceLaps == 3          \* the scheduled length of the modelled race

(***************************************************************************)
(* Exact rational arithmetic (pandas Timedelta / float seconds).           *)
(***************************************************************************)
Rat(n, d) == [num |-> n, den |-> d]

Abs(x) == IF x < 0 THEN -x ELSE x

RECURSIVE GCD(_, _)
GCD(a, b) == IF b = 0 THEN a ELSE GCD(b, a % b)

Norm(r) ==
    LET g == GCD(Abs(r.num), r.den)
    IN  IF g = 0 THEN r ELSE Rat(r.num \div g, r.den \div g)

RatAdd(a, b) ==
    LET l == (a.den \div GCD(a.den, b.den)) * b.den
    IN  Norm(Rat(a.num * (l \div a.den) + b.num * (l \div b.den), l))

RatNeg(a) == Rat(-a.num, a.den)

\* the numerator of a over the least common denominator of a and b
OverCommon(a, b) == a.num * (b.den \div GCD(a.den, b.den))

RatLE(a, b) == OverCommon(a, b) <= OverCommon(b, a)

RatLT(a, b) == OverCommon(a, b) < OverCommon(b, a)

RatEq(a, b) == OverCommon(a, b) = OverCommon(b, a)

RECURSIVE SumRat(_)
SumRat(s) == IF s = << >> THEN Rat(0, 1) ELSE RatAdd(Head(s), SumRat(Tail(s)))

RECURSIVE SumSeq(_)
SumSeq(s) == IF s = << >> THEN 0 ELSE Head(s) + SumSeq(Tail(s))

RatMul(a, b) == Norm(Rat(a.num * b.num, a.den * b.den))

\* the LapTime column of a lap table
LapTimes(tbl) == [i \in 1..Len(tbl) |-> tbl[i].LapTime]

\* Series.mean() of a LapTime column, as an exact rational (NaN when empty)
MeanLapTime(tbl) ==
    IF tbl = << >> THEN Rat(0, 0)
    ELSE Norm(Rat(SumSeq(LapTimes(tbl)), Len(tbl)))

\* Series.max() of the LapNumber column
MaxLapNumber(tbl) ==
    IF tbl = << >> THEN 0
    ELSE CHOOSE m \in {tbl[i].LapNumber : i \in 1..Len(tbl)} :
             \A i \in 1..Len(tbl) : tbl[i].LapNumber <= m

(***************************************************************************)
(* Conversions of typed text.                                              *)
(***************************************************************************)
\* mutant: the word is kept as typed
Upper_AsTyped(s) == s

\* str.upper() on the words the model types or reads
Upper(s) ==
    CASE s \in {"Soft", "soft", "SOFT"} -> "SOFT"
      [] s \in {"Medium", "medium", "MEDIUM"} -> "MEDIUM"
      [] s \in {"Hard", "hard", "HARD"} -> "HARD"
      [] s \in {"Ultra", "ultra", "ULTRA"} -> "ULTRA"
      [] s \in {"ver", "Ver", "VER"} -> "VER"
      [] s \in {"ham", "Ham", "HAM"} -> "HAM"
      [] s \in {"all", "ALL"} -> "ALL"
      [] OTHER -> s

\* the text int() accepts, with its value
IntText == [t \in {"-1", "0", "1", "2", "3", "4", "5", "9",
                    "2017", "2018", "2023"} |->
              CASE t = "-1" -> -1 [] t = "0" -> 0 [] t = "1" -> 1
                [] t = "2" -> 2 [] t = "3" -> 3 [] t = "4" -> 4
                [] t = "5" -> 5 [] t = "9" -> 9 [] t = "2017" -> 2017
                [] t = "2018" -> 2018 [] t = "2023" -> 2023]

\* int(text) raises ValueError
IntRaises(t) == t \notin DOMAIN IntText

IntOf(t) == IntText[t]

\* str.isdigit()
IsDigit(t) == t \in DOMAIN IntText /\ IntText[t] >= 0

\* str.strip() leaves nothing
IsBlank(t) == t \in {"", " "}

\* str.lower() on the answers the model types
Lower(t) ==
    CASE t \in {"yes", "Yes", "YES"} -> "yes"
      [] t \in {"no", "No", "NO"} -> "no"
      [] t \in {"all", "ALL"} -> "all"
      [] OTHER -> t

\* str.split(): a typed line is a sequence of words and blanks
NotBlank(w) == w # " "

Split(line) == SelectSeq(line, NotBlank)

(***************************************************************************)
(* The provider's tables for one race.                                     *)
(***************************************************************************)
\* results['Time'] values: a Timedelta (milliseconds), NaT, or text
TD(ms) == [tag |-> "td", v |-> ms, s |-> ""]

NaT == [tag |-> "NaT", v |-> 0, s |-> ""]

Text(t) == [tag |-> "str", v |-> 0, s |-> t]

\* the None a method returns
NoneValue == [tag |-> "None", v |-> 0, s |-> ""]

DriverCodes == {"VER", "HAM"}

NumberOf(d) == IF d = "VER" THEN "1" ELSE "44"

Row(d, pos, time) ==
    [Abbreviation |-> d, DriverNumber |-> NumberOf(d), Position |-> pos,
     Time |-> time]

\* lap time, in seconds, of a driver on a compound
Pace(d, c) ==
    (IF d = "VER" THEN 90 ELSE 96)
    + (CASE c = "SOFT" -> 0 [] c = "MEDIUM" -> 2 [] OTHER -> 4)

LapRec(d, i, st, c) ==
    [Driver |-> d, LapNumber |-> i, Stint |-> st, Compound |-> c,
     LapTime |-> Pace(d, c)]

\* the laps of a driver who ran k laps: stint n is run on compound stints[n],
\* every stint but the last is one lap long
DriverLaps(d, k, stints) ==
    [i \in 1..k |-> IF i <= Len(stints) THEN LapRec(d, i, i, stints[i])
                    ELSE LapRec(d, i, Len(stints), stints[Len(stints)])]

\* the tyre choices of a driver, stint by stint
StintPatterns ==
    { <<"SOFT">>, <<"SOFT", "MEDIUM">>, <<"MEDIUM", "HARD">>,
      <<"SOFT", "MEDIUM", "HARD">> }

\* lap tables: each driver completes the race or stops one lap short
LapTables ==
    { DriverLaps("VER", k1, pat) \o DriverLaps("HAM", k2, <<"SOFT", "MEDIUM">>) :
        k1 \in {RaceLaps - 1, RaceLaps}, k2 \in {RaceLaps - 1, RaceLaps},
        pat \in StintPatterns }

\* the recorded gap of the driver who did not win
GapValues == {TD(12345), NaT, Text("+1 Lap")}

\* the recorded elapsed time of the winner
WinnerTimes == {TD(274320)}

Other(d) == IF d = "VER" THEN "HAM" ELSE "VER"

\* results tables, ordered by position; the last has no classified winner
ResultsTables ==
    { << Row(w, 1, wt), Row(Other(w), 2, g) >> :
        w \in DriverCodes, wt \in WinnerTimes, g \in GapValues }
    \cup { << Row("VER", 0, NaT), Row("HAM", 0, NaT) >> }

(***************************************************************************)
(* RaceDataRetriever                                                       *)
(***************************************************************************)
\* create_driver_mappings: the two dictionaries, as functions
NumToAbbreviation(res) ==
    [n \in {res[i].DriverNumber : i \in 1..Len(res)} |->
        LET last == CHOOSE i \in 1..Len(res) :
                        /\ res[i].DriverNumber = n
                        /\ \A j \in 1..Len(res) :
                               res[j].DriverNumber = n => j <= i
        IN  res[last].Abbreviation]

AbbreviationToNum(res) ==
    [a \in {res[i].Abbreviation : i \in 1..Len(res)} |->
        LET last == CHOOSE i \in 1..Len(res) :
                        /\ res[i].Abbreviation = a
                        /\ \A j \in 1..Len(res) :
                               res[j].Abbreviation = a => j <= i
        IN  res[last].DriverNumber]

\* no call was made yet
NoMappings ==
    [kind |-> "uncalled", num_to_abbreviation |-> << >>,
     abbreviation_to_num |-> << >>]

\* create_driver_mappings: kind is what the call returns (a pair or the bare
\* None of a method without return), the two fields are the attributes the
\* call leaves on the retriever
create_driver_mappings(sess, res) ==
    IF sess # "None"
    THEN [kind |-> "pair", num_to_abbreviation |-> NumToAbbreviation(res),
          abbreviation_to_num |-> AbbreviationToNum(res)]
    ELSE [kind |-> "None", num_to_abbreviation |-> << >>,
          abbreviation_to_num |-> << >>]

\* what the provider does when asked for a driver's fastest lap and its
\* telemetry
FastestOutcomes == {"telemetry", "no_telemetry", "no_lap", "raises"}

\* Series.min() of the LapTime column of a driver's laps, in seconds
FastestLapTime(tbl, d) ==
    LET IsDriver(r) == r.Driver = d
        own == SelectSeq(tbl, IsDriver)
    IN  CHOOSE t \in {own[i].LapTime : i \in 1..Len(own)} :
            \A i \in 1..Len(own) : t <= own[i].LapTime

\* telemetry['Speed'].max(), in km/h
TopSpeed(d) == IF d = "VER" THEN 331 ELSE 327

NoFastest == [kind |-> "uncalled", time |-> 0, speed |-> 0]

\* the pair (None, None), None written 0
NonePair == [kind |-> "pair", time |-> 0, speed |-> 0]

\* get_fastest_lap_data: kind is "pair", or "None" when the method ends
\* without a return statement
get_fastest_lap_data(sess, tbl, d, outcome) ==
    IF sess = "None" THEN NonePair
    ELSE CASE outcome = "telemetry" ->
                  [kind |-> "pair", time |-> FastestLapTime(tbl, d),
                   speed |-> TopSpeed(d)]
           [] outcome = "no_telemetry" ->
                  \* telemetry is None: the if at line 86 falls through
                  [kind |-> "None", time |-> 0, speed |-> 0]
           [] outcome = "no_lap" ->
                  \* line 90 reads the unbound fastest_lap_time; the
                  \* UnboundLocalError is caught at line 94
                  NonePair
           [] OTHER -> NonePair

\* the outcomes the provider can have for a driver of a lap table
OutcomesFor(tbl, d) ==
    IF \E i \in 1..Len(tbl) : tbl[i].Driver = d
    THEN {"telemetry", "no_telemetry", "raises"}
    ELSE {"no_lap", "raises"}

(***************************************************************************)
(* RaceAnalysis                                                            *)
(***************************************************************************)
\* analyze_fastest_lap: the unpacking of line 67 raises on a bare None
analyze_fastest_lap(ret) ==
    IF ret.kind = "None"
    THEN [exc |-> "TypeError", time |-> "", speed |-> ""]
    ELSE IF ret.time # 0
    THEN [exc |-> "", time |-> "time",
          speed |-> IF ret.speed # 0 THEN "km/h" ELSE "N/A"]
    ELSE [exc |-> "", time |-> "N/A", speed |-> "N/A"]

\* pd.to_timedelta: [raised, val]
ToTimedelta(t) ==
    CASE t.tag = "td" -> [raised |-> FALSE, val |-> t]
      [] t.tag = "NaT" -> [raised |-> FALSE, val |-> NaT]
      [] t.tag = "str" /\ t.s = "12.345s" ->
             [raised |-> FALSE, val |-> TD(12345)]
      [] t.tag = "str" /\ t.s = "1:30:00" ->
             [raised |-> FALSE, val |-> TD(5400000)]
      [] OTHER -> [raised |-> TRUE, val |-> NoneValue]

\* Timedelta + Timedelta, NaT absorbing
TimeAdd(a, b) ==
    IF a.tag = "NaT" \/ b.tag = "NaT" THEN NaT ELSE TD(a.v + b.v)

IsWinnerRow(r) == r.Position = 1

\* self.results[self.results['Position'] == 1]
WinnerRows(res) == SelectSeq(res, IsWinnerRow)

\* self.results[self.results['Abbreviation'] == driver_code]
DriverRows(res, d) ==
    LET IsDriver(r) == r.Abbreviation = d IN SelectSeq(res, IsDriver)

\* get_winner_race_time: [val, msg]
get_winner_race_time(res) ==
    IF WinnerRows(res) # << >>
    THEN LET t == ToTimedelta(WinnerRows(res)[1].Time)
         IN  IF t.raised
             THEN [val |-> NoneValue, msg |-> "Winner's race time data is invalid."]
             ELSE [val |-> t.val, msg |-> ""]
    ELSE [val |-> NoneValue, msg |-> "Winner's race time not found."]

\* mutant: the gap is returned without the winner's time added
get_driver_race_time_GapOnly(res, d) ==
    IF WinnerRows(res) = << >>
    THEN [exc |-> "IndexError", val |-> NoneValue, msg |-> ""]
    ELSE
    LET winner_code == WinnerRows(res)[1].Abbreviation
        winner == get_winner_race_time(res)
    IN  IF winner.val.tag = "None"
        THEN [exc |-> "", val |-> NoneValue,
              msg |-> "Cannot determine the actual race time without the winner's time."]
        ELSE IF d = winner_code
        THEN [exc |-> "", val |-> winner.val, msg |-> ""]
        ELSE IF DriverRows(res, d) # << >>
        THEN LET t == ToTimedelta(DriverRows(res, d)[1].Time)
             IN  IF t.raised
                 THEN [exc |-> "", val |-> NoneValue,
                       msg |-> "Race time data is invalid for driver code."]
                 ELSE [exc |-> "", val |-> t.val, msg |-> ""]
        ELSE [exc |-> "", val |-> NoneValue,
              msg |-> "No race results found for driver code."]

\* get_driver_race_time: [exc, val, msg]; exc is the exception it raises
get_driver_race_time(res, d) ==
    IF WinnerRows(res) = << >>
    THEN [exc |-> "IndexError", val |-> NoneValue, msg |-> ""]
    ELSE
    LET winner_code == WinnerRows(res)[1].Abbreviation
        winner == get_winner_race_time(res)
    IN  IF winner.val.tag = "None"
        THEN [exc |-> "", val |-> NoneValue,
              msg |-> "Cannot determine the actual race time without the winner's time."]
        ELSE IF d = winner_code
        THEN [exc |-> "", val |-> winner.val, msg |-> ""]
        ELSE IF DriverRows(res, d) # << >>
        THEN LET t == ToTimedelta(DriverRows(res, d)[1].Time)
             IN  IF t.raised
                 THEN [exc |-> "", val |-> NoneValue,
                       msg |-> "Race time data is invalid for driver code."]
                 ELSE [exc |-> "", val |-> TimeAdd(winner.val, t.val),
                       msg |-> ""]
        ELSE [exc |-> "", val |-> NoneValue,
              msg |-> "No race results found for driver code."]

\* alphabetical order of the names groupby sorts
AlphaRank(s) ==
    CASE s = "HAM" -> 1 [] s = "HARD" -> 2 [] s = "INTERMEDIATE" -> 3
      [] s = "MEDIUM" -> 4 [] s = "SOFT" -> 5 [] s = "VER" -> 6
      [] s = "WET" -> 7 [] OTHER -> 8

KeyLess(a, b) ==
    \/ AlphaRank(a[1]) < AlphaRank(b[1])
    \/ a[1] = b[1] /\ a[2] < b[2]
    \/ a[1] = b[1] /\ a[2] = b[2] /\ AlphaRank(a[3]) < AlphaRank(b[3])

RECURSIVE SortKeys(_)
SortKeys(ks) ==
    IF ks = {} THEN << >>
    ELSE LET k == CHOOSE x \in ks : \A y \in ks \ {x} : KeyLess(x, y)
         IN  << k >> \o SortKeys(ks \ {k})

\* mutant: every row counts all the laps of its driver
analyze_stint_and_compound_data_DriverCount(tbl) ==
    LET keys == {<<tbl[i].Driver, tbl[i].Stint, tbl[i].Compound>> :
                    i \in 1..Len(tbl)}
        sorted == SortKeys(keys)
    IN  [n \in 1..Len(sorted) |->
            [Driver |-> sorted[n][1], Stint |-> sorted[n][2],
             Compound |-> sorted[n][3],
             StintLength |-> Cardinality({i \in 1..Len(tbl) :
                 tbl[i].Driver = sorted[n][1]})]]

\* analyze_stint_and_compound_data: groupby(Driver, Stint, Compound).count()
analyze_stint_and_compound_data(tbl) ==
    LET keys == {<<tbl[i].Driver, tbl[i].Stint, tbl[i].Compound>> :
                    i \in 1..Len(tbl)}
        sorted == SortKeys(keys)
    IN  [n \in 1..Len(sorted) |->
            [Driver |-> sorted[n][1], Stint |-> sorted[n][2],
             Compound |-> sorted[n][3],
             StintLength |-> Cardinality({i \in 1..Len(tbl) :
                 <<tbl[i].Driver, tbl[i].Stint, tbl[i].Compound>> = sorted[n]})]]

(***************************************************************************)
(* RaceStrategySimulator: pure parts                                       *)
(***************************************************************************)
\* compound_performance_factor, in thousandths
FactorCompounds == {"SOFT", "MEDIUM", "HARD", "WET", "INTERMEDIATE"}

compound_performance_factor(c) ==
    CASE c = "SOFT" -> 1018 [] c = "MEDIUM" -> 1038 [] c = "HARD" -> 1058
      [] c = "WET" -> 1098 [] c = "INTERMEDIATE" -> 1078

\* lap_data[lap_data['Driver'] == driver_code]
LapsOfDriver(tbl, d) ==
    LET IsDriver(r) == r.Driver = d IN SelectSeq(tbl, IsDriver)

\* lap_data[(Driver == driver_code) & (Compound.str.upper() == compound_upper)]
CompoundLaps(tbl, d, c) ==
    LET Match(r) == r.Driver = d /\ Upper(r.Compound) = c
    IN  SelectSeq(tbl, Match)

\* mutant: a driver with fewer lap records passes the gate
did_driver_finish_AtMost(tbl, d, total) == Len(LapsOfDriver(tbl, d)) <= total

did_driver_finish(tbl, d, total) == Len(LapsOfDriver(tbl, d)) = total

\* the baseline used when the driver has no lap on the compound
FallbackBaseline(tbl, d) == MeanLapTime(tbl)

\* mutant: a compound the driver never ran gets no baseline
calculate_driver_averages_NoFallback(tbl, d, plan) ==
    [c \in {Upper(plan[i][1]) : i \in 1..Len(plan)} \cap
            {Upper(LapsOfDriver(tbl, d)[i].Compound) :
                i \in 1..Len(LapsOfDriver(tbl, d))} |->
        MeanLapTime(CompoundLaps(tbl, d, c))]

\* calculate_driver_averages: compound -> mean lap time in seconds
calculate_driver_averages(tbl, d, plan) ==
    [c \in {Upper(plan[i][1]) : i \in 1..Len(plan)} |->
        IF CompoundLaps(tbl, d, c) # << >>
        THEN MeanLapTime(CompoundLaps(tbl, d, c))
        ELSE FallbackBaseline(tbl, d)]

\* np.random.uniform(-0.005, 0.005), in thousandths: low inclusive, high exclusive
DevLow == -5

DevHigh == 5

\* mutant: the upper end of the range is drawn too
UniformSamples_Closed == {DevLow, DevHigh}

\* the ends of the range of the draw
UniformSamples == {DevLow, DevHigh - 1}

DefaultLapTime == 90

\* one sampled lap of a stint on compound c, with the drawn deviation u
SampledLap(avgs, c, u) ==
    IF c \in DOMAIN avgs
    THEN RatAdd(RatMul(avgs[c], Rat(compound_performance_factor(c), 1000)),
                RatMul(Rat(u, 1000), avgs[c]))
    ELSE RatAdd(Rat(DefaultLapTime, 1),
                RatMul(Rat(u, 1000), Rat(DefaultLapTime, 1)))

PlanLaps(plan) == SumSeq([i \in 1..Len(plan) |-> plan[i][2]])

\* mutant: one sampled lap per stint, whatever its lap count
RECURSIVE SimulatedTimes_OnePerStint(_, _, _)
SimulatedTimes_OnePerStint(plan, avgs, devs) ==
    IF plan = << >> THEN << >>
    ELSE << SampledLap(avgs, Upper(Head(plan)[1]), devs[1]) >>
         \o SimulatedTimes_OnePerStint(Tail(plan), avgs,
                                       SubSeq(devs, 2, Len(devs)))

\* simulated_times of simulate_lap_times, devs holding one draw per lap
RECURSIVE SimulatedTimes(_, _, _)
SimulatedTimes(plan, avgs, devs) ==
    IF plan = << >> THEN << >>
    ELSE LET c == Upper(Head(plan)[1])
             n == Head(plan)[2]
         IN  [j \in 1..n |-> SampledLap(avgs, c, devs[j])]
             \o SimulatedTimes(Tail(plan), avgs, SubSeq(devs, n + 1, Len(devs)))

\* the lookup compound_performance_factor[compound_upper] raises KeyError
FactorKeyError(plan, avgs) ==
    \E i \in 1..Len(plan) :
        /\ Upper(plan[i][1]) \in DOMAIN avgs
        /\ Upper(plan[i][1]) \notin FactorCompounds

\* get_actual_stint_info: (compound, laps), laps 0 standing for 'N/A'
get_actual_stint_info(data, k) ==
    LET IsStint(r) == r.Stint = k
        info == SelectSeq(data, IsStint)
    IN  IF info # << >> THEN << info[1].Compound, info[1].StintLength >>
        ELSE << "N/A", 0 >>

MaxOf(S) == CHOOSE m \in S : \A x \in S : x <= m

\* mutant: the table has a row per planned stint only
StintRows_PlanOnly(tbl, d, plan) ==
    LET all == analyze_stint_and_compound_data(tbl)
        IsDriver(r) == r.Driver = d
        data == SelectSeq(all, IsDriver)
    IN  [k \in 1..Len(plan) |->
            [stint |-> k,
             actual |-> get_actual_stint_info(data, k),
             sim |-> plan[k]]]

\* the rows compare_strategy prints
StintRows(tbl, d, plan) ==
    LET all == analyze_stint_and_compound_data(tbl)
        IsDriver(r) == r.Driver = d
        data == SelectSeq(all, IsDriver)
        max_stints == MaxOf({data[i].Stint : i \in 1..Len(data)} \cup {Len(plan)})
    IN  [k \in 1..max_stints |->
            [stint |-> k,
             actual |-> get_actual_stint_info(data, k),
             sim |-> IF k <= Len(plan) THEN plan[k] ELSE << "N/A", 0 >>]]

TimeToRat(t) == Norm(Rat(t.v, 1000))

NoVerdict == [label |-> "", nat |-> FALSE, diff |-> Rat(0, 1)]

\* mutant: equal totals are labelled slower
Verdict_TieSlower(total, actual) ==
    IF actual.tag = "NaT"
    THEN [label |-> "faster", nat |-> TRUE, diff |-> Rat(0, 1)]
    ELSE LET time_difference == RatAdd(total, RatNeg(TimeToRat(actual)))
         IN  IF RatLE(Rat(0, 1), time_difference)
             THEN [label |-> "slower", nat |-> FALSE, diff |-> time_difference]
             ELSE [label |-> "faster", nat |-> FALSE,
                   diff |-> RatNeg(time_difference)]

\* the label and the printed difference of compare_strategy
Verdict(total, actual) ==
    IF actual.tag = "NaT"
    THEN [label |-> "faster", nat |-> TRUE, diff |-> Rat(0, 1)]
    ELSE LET time_difference == RatAdd(total, RatNeg(TimeToRat(actual)))
         IN  IF RatLT(Rat(0, 1), time_difference)
             THEN [label |-> "slower", nat |-> FALSE, diff |-> time_difference]
             ELSE [label |-> "faster", nat |-> FALSE,
                   diff |-> RatNeg(time_difference)]

(***************************************************************************)
(* What the simulator prints.                                              *)
(***************************************************************************)
MsgAccepted == "Strategy accepted."

MsgMismatch == "The total laps in your strategy do not match the race length."

MsgInvalidInput == "Invalid input. Please enter numerical values."

MsgTooFewStints == "You need to plan at least 2 stints."

MsgNonPositive == "Number of laps must be greater than zero."

MsgDidNotFinish == "Driver did not finish the race."

MsgNoRaceData == "Cannot run simulation without race data."

MsgInvalidDriver == "Invalid DriverID. Please try again."

MsgNoActualTime == "No actual race time found for driver."

(***************************************************************************)
(* What the user can type.                                                 *)
(***************************************************************************)
DriverInputs == {"ver", "HAM", "1", "44", "XXX"}

StintCountInputs == {"abc", "1", "2", "3"}

StintInfoInputs ==
    { <<"Soft", " ", "1">>, <<"soft", " ", "2">>, <<"MEDIUM", " ", "1">>,
      <<" ", "Medium", " ", " ", "2">>, <<"Ultra", " ", "1">>,
      <<"Soft", " ", "0">>, <<"Soft">>, <<"Soft", " ", "x">>,
      <<"Soft", " ", "1", " ", "1">>, << >> }

(***************************************************************************)
(* RaceStrategySimulator.run_simulation, prompt to prompt                  *)
(***************************************************************************)
SimFields(at) ==
    /\ analysis = FALSE
    /\ total_laps = 0
    /\ driver_code = "None"
    /\ user_strategy = << >>
    /\ simulated_lap_times = << >>
    /\ num_stints = 0
    /\ stint_num = 0
    /\ total_strategy_laps = 0
    /\ driver_averages = << >>
    /\ actual_race_time = NoneValue
    /\ total_simulated_time = Rat(0, 1)
    /\ table = << >>
    /\ verdict = NoVerdict
    /\ pc = at
    /\ msg = ""
    /\ calls = {}
    /\ completed = {}
    /\ exc = ""

\* RaceStrategySimulator.__init__
SimInit == SimFields("start")

\* no method of the retriever or the analysis was called yet
NoStintData == [calls |-> 0, out |-> << >>]

QueryIdle ==
    /\ mappings = NoMappings
    /\ fastest = NoFastest
    /\ stint_data = NoStintData

\* main is not running
ShellIdle ==
    /\ mpc = "idle"
    /\ year = 0
    /\ race = ""
    /\ user_choice = ""
    /\ gyear = 0
    /\ fetched = {}
    /\ loads = 0
    /\ rejected = 0
    /\ races_done = 0

MainIdle ==
    /\ ShellIdle
    /\ session = "None"

Init ==
    /\ laps \in LapTables
    /\ results \in ResultsTables
    /\ SimInit
    /\ MainIdle
    /\ QueryIdle

\* run_simulation up to the first prompt of get_drivers
RunStart ==
    /\ pc = "start"
    /\ \E loaded \in BOOLEAN :
         IF loaded
         THEN /\ analysis' = TRUE
              /\ total_laps' = MaxLapNumber(laps)
              /\ calls' = calls \cup {"load_and_initialize_data", "get_drivers"}
              /\ completed' = completed \cup {"load_and_initialize_data"}
              /\ mappings' = create_driver_mappings("ok", results)
              /\ msg' = ""
              /\ pc' = "driver_prompt"
         ELSE /\ calls' = calls \cup {"load_and_initialize_data"}
              /\ msg' = MsgNoRaceData
              /\ pc' = "returned"
              /\ UNCHANGED << analysis, total_laps, completed, mappings >>
    /\ loads' = loads + 1
    /\ UNCHANGED << driver_code, user_strategy, simulated_lap_times, num_stints,
                    stint_num, total_strategy_laps, driver_averages,
                    actual_race_time, total_simulated_time, table, verdict, exc >>
    /\ UNCHANGED << worldVars, fastest, stint_data, shellVars >>

\* get_drivers: the identifier typed names a driver, by number or by code
ResolveDriver(res, typed) ==
    LET input_id == Upper(typed)
    IN  IF input_id \in DOMAIN NumToAbbreviation(res)
        THEN NumToAbbreviation(res)[input_id]
        ELSE IF input_id \in DOMAIN AbbreviationToNum(res)
        THEN input_id
        ELSE "None"

\* the driver prompt of get_drivers, then the finish gate of run_simulation
\* and the start of input_strategy
DriverInput ==
    /\ pc = "driver_prompt"
    /\ \E typed \in DriverInputs :
         LET d == ResolveDriver(results, typed)
         IN  IF d = "None"
             THEN /\ msg' = MsgInvalidDriver
                  /\ UNCHANGED << driver_code, pc, calls, completed,
                                  user_strategy >>
             ELSE /\ driver_code' = d
                  /\ IF ~ did_driver_finish(laps, d, total_laps)
                     THEN /\ msg' = MsgDidNotFinish
                          /\ pc' = "returned"
                          /\ calls' = calls \cup {"did_driver_finish"}
                          /\ completed' = completed \cup {"get_drivers"}
                          /\ UNCHANGED user_strategy
                     ELSE /\ msg' = ""
                          /\ pc' = "stints_prompt"
                          /\ calls' = calls \cup {"did_driver_finish",
                                                  "input_strategy"}
                          /\ completed' = completed \cup {"get_drivers"}
                          /\ user_strategy' = << >>
    /\ UNCHANGED << analysis, total_laps, simulated_lap_times, num_stints,
                    stint_num, total_strategy_laps, driver_averages,
                    actual_race_time, total_simulated_time, table, verdict, exc >>
    /\ UNCHANGED << worldVars, queryVars, mainVars >>

\* input_strategy: the stint-count prompt
StintsInput ==
    /\ pc = "stints_prompt"
    /\ \E typed \in StintCountInputs :
         IF IntRaises(typed)
         THEN /\ msg' = MsgInvalidInput
              /\ user_strategy' = << >>
              /\ UNCHANGED << num_stints, stint_num, pc >>
         ELSE /\ num_stints' = IntOf(typed)
              /\ user_strategy' = << >>
              /\ IF IntOf(typed) < 2
                 THEN /\ msg' = MsgTooFewStints
                      /\ UNCHANGED << stint_num, pc >>
                 ELSE /\ msg' = ""
                      /\ stint_num' = 1
                      /\ pc' = "stint_prompt"
    /\ UNCHANGED << analysis, total_laps, driver_code, simulated_lap_times,
                    total_strategy_laps, driver_averages, actual_race_time,
                    total_simulated_time, table, verdict, calls, completed, exc >>
    /\ UNCHANGED << worldVars, queryVars, mainVars >>

\* mutant: a plan shorter than the race is accepted too
PlanAccepted_AtMost(total_strategy, total) == total_strategy <= total

\* mutant: a plan longer than the race is accepted too
PlanAccepted_AtLeast(total_strategy, total) == total_strategy >= total

\* the acceptance test of input_strategy on a complete plan
PlanAccepted(total_strategy, total) == total_strategy = total

\* input_strategy: the prompt for one stint
StintInput ==
    /\ pc = "stint_prompt"
    /\ \E line \in StintInfoInputs :
         LET words == Split(line)
         IN  IF Len(words) # 2 \/ IntRaises(words[2])
             THEN \* ValueError, caught by the outer loop
                  /\ msg' = MsgInvalidInput
                  /\ user_strategy' = << >>
                  /\ pc' = "stints_prompt"
                  /\ UNCHANGED << stint_num, total_strategy_laps, completed >>
             ELSE IF IntOf(words[2]) <= 0
             THEN /\ msg' = MsgNonPositive
                  /\ UNCHANGED << user_strategy, pc, stint_num,
                                  total_strategy_laps, completed >>
             ELSE LET plan == Append(user_strategy,
                                     << Upper(words[1]), IntOf(words[2]) >>)
                  IN  IF stint_num < num_stints
                      THEN /\ msg' = ""
                           /\ user_strategy' = plan
                           /\ stint_num' = stint_num + 1
                           /\ UNCHANGED << pc, total_strategy_laps, completed >>
                      ELSE /\ total_strategy_laps' = PlanLaps(plan)
                           /\ UNCHANGED stint_num
                           /\ IF PlanAccepted(PlanLaps(plan), total_laps)
                              THEN /\ msg' = MsgAccepted
                                   /\ user_strategy' = plan
                                   /\ pc' = "accepted"
                                   /\ completed' = completed \cup {"input_strategy"}
                              ELSE /\ msg' = MsgMismatch
                                   /\ user_strategy' = << >>
                                   /\ pc' = "stints_prompt"
                                   /\ UNCHANGED completed
    /\ UNCHANGED << analysis, total_laps, driver_code, simulated_lap_times,
                    num_stints, driver_averages, actual_race_time,
                    total_simulated_time, table, verdict, calls, exc >>
    /\ UNCHANGED << worldVars, queryVars, mainVars >>

\* self.simulated_lap_times = self.simulate_lap_times(self.driver_code)
Simulate ==
    /\ pc = "accepted"
    /\ calls' = calls \cup {"simulate_lap_times"}
    /\ IF ~ did_driver_finish(laps, driver_code, total_laps)
       THEN /\ msg' = "Driver did not finish the race and cannot be used for simulation."
            /\ simulated_lap_times' = << >>
            /\ pc' = "simulated"
            /\ completed' = completed \cup {"simulate_lap_times"}
            /\ UNCHANGED << driver_averages, exc >>
       ELSE LET avgs == calculate_driver_averages(laps, driver_code, user_strategy)
            IN  /\ driver_averages' = avgs
                /\ IF FactorKeyError(user_strategy, avgs)
                   THEN /\ exc' = "KeyError"
                        /\ pc' = "raised"
                        /\ msg' = ""
                        /\ UNCHANGED << simulated_lap_times, completed >>
                   ELSE /\ \E devs \in [1..PlanLaps(user_strategy) -> UniformSamples] :
                             simulated_lap_times' =
                                 SimulatedTimes(user_strategy, avgs, devs)
                        /\ pc' = "simulated"
                        /\ msg' = ""
                        /\ completed' = completed \cup {"simulate_lap_times"}
                        /\ UNCHANGED exc
    /\ UNCHANGED << analysis, total_laps, driver_code, user_strategy, num_stints,
                    stint_num, total_strategy_laps, actual_race_time,
                    total_simulated_time, table, verdict >>
    /\ UNCHANGED << worldVars, queryVars, mainVars >>

\* self.compare_strategy(self.driver_code)
Compare ==
    /\ pc = "simulated"
    /\ calls' = calls \cup {"compare_strategy"}
    /\ LET r == get_driver_race_time(results, driver_code)
       IN  IF r.exc # ""
           THEN /\ exc' = r.exc
                /\ pc' = "raised"
                /\ msg' = ""
                /\ UNCHANGED << actual_race_time, total_simulated_time, table,
                                verdict, completed, stint_data >>
           ELSE /\ actual_race_time' = r.val
                /\ total_simulated_time' = SumRat(simulated_lap_times)
                /\ stint_data' =
                       [calls |-> stint_data.calls + 1,
                        out |-> analyze_stint_and_compound_data(laps)]
                /\ pc' = "compared"
                /\ completed' = completed \cup {"compare_strategy"}
                /\ UNCHANGED exc
                /\ IF r.val.tag # "None"
                   THEN /\ table' = StintRows(laps, driver_code, user_strategy)
                        /\ verdict' = Verdict(SumRat(simulated_lap_times), r.val)
                        /\ msg' = ""
                   ELSE /\ msg' = MsgNoActualTime
                        /\ UNCHANGED << table, verdict >>
    /\ UNCHANGED << analysis, total_laps, driver_code, user_strategy,
                    simulated_lap_times, num_stints, stint_num,
                    total_strategy_laps, driver_averages >>
    /\ UNCHANGED << worldVars, mappings, fastest, mainVars >>

Next ==
    \/ RunStart
    \/ DriverInput
    \/ StintsInput
    \/ StintInput
    \/ Simulate
    \/ Compare

Spec == Init /\ [][Next]_vars

(***************************************************************************)
(* get_driver_race_time on its own: every small results table, every code  *)
(***************************************************************************)
TimeValues ==
    {TD(5400000), TD(12345), NaT, Text("1:30:00"), Text("12.345s"),
     Text("+1 Lap")}

TimeRows ==
    {[Abbreviation |-> d, DriverNumber |-> NumberOf(d), Position |-> p,
      Time |-> t] : d \in DriverCodes, p \in {0, 1, 2}, t \in TimeValues}

\* results tables of at most two rows, one row per driver
TimeResultsTables ==
    {<< >>}
    \cup {<< r >> : r \in TimeRows}
    \cup {<< r1, r2 >> : r1 \in {r \in TimeRows : r.Abbreviation = "VER"},
                         r2 \in {r \in TimeRows : r.Abbreviation = "HAM"}}
    \cup {<< r2, r1 >> : r1 \in {r \in TimeRows : r.Abbreviation = "VER"
                                               /\ r.Position # 1},
                         r2 \in {r \in TimeRows : r.Abbreviation = "HAM"
                                               /\ r.Position = 1}}

TimeInit ==
    /\ laps = << >>
    /\ results \in TimeResultsTables
    /\ SimInit
    /\ MainIdle
    /\ QueryIdle

\* a caller picks a driver code and asks for the race time
TimeQuery ==
    /\ pc = "start"
    /\ \E d \in DriverCodes \cup {"XXX"} :
         LET r == get_driver_race_time(results, d)
         IN  /\ driver_code' = d
             /\ exc' = r.exc
             /\ msg' = r.msg
             /\ actual_race_time' = r.val
             /\ pc' = IF r.exc # "" THEN "raised" ELSE "returned"
    /\ calls' = calls \cup {"get_driver_race_time"}
    /\ UNCHANGED << analysis, total_laps, user_strategy, simulated_lap_times,
                    num_stints, stint_num, total_strategy_laps, driver_averages,
                    total_simulated_time, table, verdict, completed >>
    /\ UNCHANGED << worldVars, queryVars, mainVars >>

TimeNext == TimeQuery

SpecTime == TimeInit /\ [][TimeNext]_vars

(***************************************************************************)
(* The methods of RaceDataRetriever and RaceAnalysis called on their own,  *)
(* on a retriever with or without a loaded session                         *)
(***************************************************************************)
MaxStintCalls == 2     \* calls of analyze_stint_and_compound_data followed

QueryInit ==
    /\ laps \in LapTables
    /\ results \in ResultsTables
    /\ SimInit
    /\ ShellIdle
    /\ session \in {"None", "ok"}
    /\ QueryIdle

\* a caller asks for the mappings and unpacks them into two names
MappingsQuery ==
    /\ LET ret == create_driver_mappings(session, results)
       IN  /\ mappings' = ret
           /\ exc' = IF ret.kind = "None" THEN "TypeError" ELSE ""
    /\ calls' = calls \cup {"create_driver_mappings"}
    /\ UNCHANGED << analysis, total_laps, driver_code, user_strategy,
                    simulated_lap_times, num_stints, stint_num,
                    total_strategy_laps, driver_averages, actual_race_time,
                    total_simulated_time, table, verdict, pc, msg, completed >>
    /\ UNCHANGED << worldVars, fastest, stint_data, mainVars >>

\* analyze_fastest_lap asks for a driver's fastest lap
FastestLapQuery ==
    /\ \E d \in DriverCodes \cup {"XXX"} :
         \E outcome \in OutcomesFor(laps, d) :
            LET ret == get_fastest_lap_data(session, laps, d, outcome)
            IN  /\ driver_code' = d
                /\ fastest' = ret
                /\ exc' = analyze_fastest_lap(ret).exc
    /\ calls' = calls \cup {"get_fastest_lap_data"}
    /\ UNCHANGED << analysis, total_laps, user_strategy,
                    simulated_lap_times, num_stints, stint_num,
                    total_strategy_laps, driver_averages, actual_race_time,
                    total_simulated_time, table, verdict, pc, msg, completed >>
    /\ UNCHANGED << worldVars, mappings, stint_data, mainVars >>

\* a caller groups the lap table
StintQuery ==
    /\ stint_data.calls < MaxStintCalls
    /\ stint_data' = [calls |-> stint_data.calls + 1,
                      out |-> analyze_stint_and_compound_data(laps)]
    /\ calls' = calls \cup {"analyze_stint_and_compound_data"}
    /\ UNCHANGED << analysis, total_laps, driver_code, user_strategy,
                    simulated_lap_times, num_stints, stint_num,
                    total_strategy_laps, driver_averages, actual_race_time,
                    total_simulated_time, table, verdict, pc, msg, completed,
                    exc >>
    /\ UNCHANGED << worldVars, mappings, fastest, mainVars >>

QueryNext ==
    \/ MappingsQuery
    \/ FastestLapQuery
    \/ StintQuery

SpecQuery == QueryInit /\ [][QueryNext]_vars


(***************************************************************************)
(* Main.main, prompt to prompt                                             *)
(***************************************************************************)
MaxRaces == 1          \* times the user answers yes at the continue prompt

MaxRejected == 1       \* loads validate_data rejects for one selected race

MinYear == 2018

MsgInvalidYear == "Invalid input. Please enter a valid year."

MsgYearTooEarly ==
    "Data can only be loaded for years 2018 and onwards. Please enter a valid year."

MsgNoSuchRound ==
    "No race found for the provided round number. Please try again."

YearInputs == {"abc", "2017", "2018", "2023"}

RaceInputs == {"0", "1", "2", "9", "-1", "Monaco", " "}

ModeInputs == {"1", "2", "3"}

AnalyzeInputs == {"all", "ver", "44", "XXX"}

YesNoInputs == {"Yes", "yes", "no"}

\* get_race_calendar: the (RoundNumber, EventName) rows of a year
Calendar(y) ==
    IF y = 2018
    THEN << [RoundNumber |-> 1, EventName |-> "Australian Grand Prix"],
            [RoundNumber |-> 2, EventName |-> "Bahrain Grand Prix"] >>
    ELSE << [RoundNumber |-> 0, EventName |-> "Pre-Season Testing"],
            [RoundNumber |-> 1, EventName |-> "Bahrain Grand Prix"],
            [RoundNumber |-> 2, EventName |-> "Saudi Arabian Grand Prix"] >>

\* calendar[calendar['RoundNumber'] == round_number]
RoundRows(cal, n) ==
    LET IsRound(r) == r.RoundNumber = n IN SelectSeq(cal, IsRound)

\* mutant: a number that is no round of the calendar is returned as typed
get_race_from_input_AsTyped(cal, typed) ==
    IF IsDigit(typed)
    THEN IF RoundRows(cal, IntOf(typed)) # << >>
         THEN RoundRows(cal, IntOf(typed))[1].EventName
         ELSE typed
    ELSE IF IsBlank(typed) THEN "" ELSE typed

\* get_race_from_input on one typed line: the race returned, "" = ask again
get_race_from_input(cal, typed) ==
    IF IsDigit(typed)
    THEN IF RoundRows(cal, IntOf(typed)) # << >>
         THEN RoundRows(cal, IntOf(typed))[1].EventName
         ELSE ""
    ELSE IF IsBlank(typed) THEN "" ELSE typed

\* mutant: a session whose results are empty passes
validate_data_Lenient(sess) == sess # "None"

\* validate_data on what load_session gave
validate_data(sess) == sess = "ok"

MsgInvalidOption == "Invalid option selected. Please try again."

MsgNoData == "No data found for the race. The race might not have occurred."

\* mutant: draw_map_visual draws from the session main loaded
LoadsOfModeChoice_Shared(validated) == 1

\* load_session executions of one valid mode choice: main's own and, once
\* the data is validated, the one of draw_map_visual
LoadsOfModeChoice(validated) == IF validated THEN 2 ELSE 1

MainLaps ==
    DriverLaps("VER", RaceLaps, <<"SOFT", "MEDIUM">>)
    \o DriverLaps("HAM", RaceLaps - 1, <<"SOFT", "MEDIUM">>)

MainResults == << Row("VER", 1, TD(280000)), Row("HAM", 2, NaT) >>

simFieldsButMsg ==
    << analysis, total_laps, driver_code, user_strategy, simulated_lap_times,
       num_stints, stint_num, total_strategy_laps, driver_averages,
       actual_race_time, total_simulated_time, table, verdict, pc, calls,
       completed, exc >>

\* a RaceStrategySimulator as its constructor leaves it, at position `at`
SimReset(at) ==
    /\ analysis' = FALSE
    /\ total_laps' = 0
    /\ driver_code' = "None"
    /\ user_strategy' = << >>
    /\ simulated_lap_times' = << >>
    /\ num_stints' = 0
    /\ stint_num' = 0
    /\ total_strategy_laps' = 0
    /\ driver_averages' = << >>
    /\ actual_race_time' = NoneValue
    /\ total_simulated_time' = Rat(0, 1)
    /\ table' = << >>
    /\ verdict' = NoVerdict
    /\ pc' = at
    /\ calls' = {}
    /\ completed' = {}
    /\ exc' = ""

MainInit ==
    /\ laps = MainLaps
    /\ results = MainResults
    /\ SimFields("none")
    /\ mpc = "year_prompt"
    /\ year = 0
    /\ race = ""
    /\ user_choice = ""
    /\ session = "None"
    /\ gyear = 0
    /\ fetched = {}
    /\ loads = 0
    /\ rejected = 0
    /\ races_done = 0
    /\ QueryIdle

\* get_race_details: the year prompt
YearInput ==
    /\ mpc = "year_prompt"
    /\ \E typed \in YearInputs :
         IF IntRaises(typed)
         THEN /\ msg' = MsgInvalidYear
              /\ UNCHANGED << gyear, fetched, mpc >>
         ELSE /\ gyear' = IntOf(typed)
              /\ IF IntOf(typed) < MinYear
                 THEN /\ msg' = MsgYearTooEarly
                      /\ UNCHANGED << fetched, mpc >>
                 ELSE /\ fetched' = fetched \cup {IntOf(typed)}
                      /\ \E got \in BOOLEAN :
                           IF got
                           THEN /\ msg' = ""
                                /\ mpc' = "race_prompt"
                           ELSE /\ msg' = "Failed to fetch the race calendar."
                                /\ UNCHANGED mpc
    /\ UNCHANGED << year, race, user_choice, session, loads, rejected,
                    races_done >>
    /\ UNCHANGED << worldVars, queryVars, simFieldsButMsg >>

\* get_race_from_input: the race prompt; main takes (year, race) on return
RaceInput ==
    /\ mpc = "race_prompt"
    /\ \E typed \in RaceInputs :
         LET picked == get_race_from_input(Calendar(gyear), typed)
         IN  IF picked = ""
             THEN /\ msg' = IF IsDigit(typed)
                            THEN MsgNoSuchRound
                            ELSE "No race found with the provided name. Please try again."
                  /\ UNCHANGED << mpc, year, race, gyear, fetched, loads,
                                  rejected >>
             ELSE /\ msg' = ""
                  /\ year' = gyear
                  /\ race' = picked
                  /\ mpc' = "mode_prompt"
                  /\ gyear' = 0
                  /\ fetched' = {}
                  /\ loads' = 0
                  /\ rejected' = 0
    /\ UNCHANGED << user_choice, session, races_done >>
    /\ UNCHANGED << worldVars, queryVars, simFieldsButMsg >>

\* the mode prompt: load, validate, draw the map, start the chosen mode
ModeInput ==
    /\ mpc = "mode_prompt"
    /\ \E typed \in ModeInputs :
         IF typed \notin {"1", "2"}
         THEN /\ msg' = MsgInvalidOption
              /\ UNCHANGED << mpc, user_choice, session, loads, rejected,
                              mappings >>
              /\ UNCHANGED simFieldsButMsg
         ELSE \E got \in {"ok", "empty", "None"} :
              /\ got # "ok" => rejected < MaxRejected
              /\ user_choice' = typed
              /\ session' = got
              /\ loads' = loads + LoadsOfModeChoice(validate_data(got))
              /\ IF ~ validate_data(got)
                 THEN /\ msg' = MsgNoData
                      /\ rejected' = rejected + 1
                      /\ UNCHANGED << mpc, mappings >>
                      /\ UNCHANGED simFieldsButMsg
                 ELSE /\ UNCHANGED rejected
                      /\ \E drawn \in BOOLEAN :
                           IF ~ drawn
                           THEN \* draw_map_visual: session is None
                                /\ mpc' = "raised"
                                /\ msg' = "AttributeError: NoneType object has no attribute laps"
                                /\ UNCHANGED mappings
                                /\ UNCHANGED simFieldsButMsg
                           ELSE /\ msg' = "Successfully loaded data for the race."
                                /\ IF typed = "1"
                                   THEN /\ mpc' = "analyze_prompt"
                                        /\ mappings' =
                                               create_driver_mappings(got, results)
                                        /\ UNCHANGED simFieldsButMsg
                                   ELSE /\ mpc' = "sim"
                                        /\ UNCHANGED mappings
                                        /\ SimReset("start")
    /\ UNCHANGED << year, race, gyear, fetched, races_done >>
    /\ UNCHANGED << worldVars, fastest, stint_data >>

\* get_drivers_to_analyze on one typed line: the drivers returned, << >> =
\* ask again
get_drivers_to_analyze(res, typed) ==
    IF Lower(Upper(typed)) = "all"
    THEN [i \in 1..Len(res) |-> res[i].Abbreviation]
    ELSE IF ResolveDriver(res, typed) # "None"
    THEN << ResolveDriver(res, typed) >>
    ELSE << >>

MinOf(S) == CHOOSE m \in S : \A x \in S : m <= x

MsgUnpackNone == "TypeError: cannot unpack non-iterable NoneType object"

\* mode 1: get_drivers_to_analyze, then analyze_and_print_driver_data works
\* through the drivers; a fastest lap without telemetry ends main
AnalyzeInput ==
    /\ mpc = "analyze_prompt"
    /\ \E typed \in AnalyzeInputs :
         LET drivers == get_drivers_to_analyze(results, typed)
         IN  IF drivers = << >>
             THEN /\ msg' = "Invalid DriverID(s). Please try again."
                  /\ UNCHANGED << mpc, fastest, stint_data >>
             ELSE \E outs \in [1..Len(drivers) -> FastestOutcomes] :
                  /\ \A i \in 1..Len(drivers) :
                         outs[i] \in OutcomesFor(laps, drivers[i])
                  /\ LET rets == [i \in 1..Len(drivers) |->
                                     get_fastest_lap_data(session, laps,
                                                          drivers[i], outs[i])]
                         bad == {i \in 1..Len(drivers) : rets[i].kind = "None"}
                         last == IF bad = {} THEN Len(drivers) ELSE MinOf(bad)
                         done == IF bad = {} THEN Len(drivers) ELSE last - 1
                     IN  /\ fastest' = rets[last]
                         /\ stint_data' =
                                IF done = 0 THEN stint_data
                                ELSE [calls |-> stint_data.calls + done,
                                      out |-> analyze_stint_and_compound_data(laps)]
                         /\ IF bad = {}
                            THEN /\ msg' = ""
                                 /\ mpc' = "winner_prompt"
                            ELSE /\ msg' = MsgUnpackNone
                                 /\ mpc' = "raised"
    /\ UNCHANGED << year, race, user_choice, session, gyear, fetched, loads,
                    rejected, races_done >>
    /\ UNCHANGED << worldVars, mappings, simFieldsButMsg >>

\* mode 1: the compare-with-winner prompt, and compare_with_winner on yes
WinnerInput ==
    /\ mpc = "winner_prompt"
    /\ \E typed \in YesNoInputs :
         IF Lower(typed) # "yes"
         THEN /\ msg' = ""
              /\ mpc' = "continue_prompt"
              /\ UNCHANGED << fastest, stint_data >>
         ELSE IF WinnerRows(results) = << >>
         THEN /\ msg' = "Winner data not available."
              /\ mpc' = "continue_prompt"
              /\ UNCHANGED << fastest, stint_data >>
         ELSE \E outcome \in OutcomesFor(laps, WinnerRows(results)[1].Abbreviation) :
              LET ret == get_fastest_lap_data(session, laps,
                             WinnerRows(results)[1].Abbreviation, outcome)
              IN  /\ fastest' = ret
                  /\ IF ret.kind = "None"
                     THEN /\ msg' = MsgUnpackNone
                          /\ mpc' = "raised"
                          /\ UNCHANGED stint_data
                     ELSE /\ msg' = "Driver performance of race winner:"
                          /\ mpc' = "continue_prompt"
                          /\ stint_data' =
                                 [calls |-> stint_data.calls + 1,
                                  out |-> analyze_stint_and_compound_data(laps)]
    /\ UNCHANGED << year, race, user_choice, session, gyear, fetched, loads,
                    rejected, races_done >>
    /\ UNCHANGED << worldVars, mappings, simFieldsButMsg >>

\* mode 2, after run_simulation returned: the plotter loads and plots
AfterSimulation ==
    /\ mpc = "sim"
    /\ pc \in {"compared", "returned"}
    /\ \E loaded \in BOOLEAN :
         msg' = IF loaded THEN "" ELSE "Race data could not be initialized."
    /\ loads' = loads + 1
    /\ mpc' = "continue_prompt"
    /\ UNCHANGED << year, race, user_choice, session, gyear, fetched,
                    rejected, races_done >>
    /\ UNCHANGED << worldVars, queryVars, simFieldsButMsg >>

\* continue_analysis; on yes the finished iteration's objects are dropped
ContinueInput ==
    /\ mpc = "continue_prompt"
    /\ \E typed \in YesNoInputs :
         IF Lower(typed) = "yes"
         THEN /\ races_done < MaxRaces
              /\ races_done' = races_done + 1
              /\ mpc' = "year_prompt"
              /\ SimReset("none")
              /\ mappings' = NoMappings
              /\ fastest' = NoFastest
              /\ stint_data' = NoStintData
         ELSE /\ mpc' = "exited"
              /\ UNCHANGED races_done
              /\ UNCHANGED simFieldsButMsg
              /\ UNCHANGED queryVars
    /\ msg' = ""
    /\ UNCHANGED << year, race, user_choice, session, gyear, fetched, loads,
                    rejected >>
    /\ UNCHANGED worldVars

MainNext ==
    \/ YearInput
    \/ RaceInput
    \/ ModeInput
    \/ AnalyzeInput
    \/ WinnerInput
    \/ RunStart
    \/ DriverInput
    \/ StintsInput
    \/ StintInput
    \/ Simulate
    \/ Compare
    \/ AfterSimulation
    \/ ContinueInput

SpecMain == MainInit /\ [][MainNext]_vars

(***************************************************************************)
(* Properties                                                              *)
(***************************************************************************)
\* C1: a complete plan typed at the last stint prompt of input_strategy is
\* accepted exactly when the sum of its lap counts equals total_laps; an
\* accepted plan is stored and sums to total_laps, a rejected plan is cleared
\* and the stint-count prompt (the start of the whole plan) comes next.
C1_AcceptIffSumMatches ==
    [][ (pc = "stint_prompt" /\ msg' \in {MsgAccepted, MsgMismatch}) =>
           /\ (msg' = MsgAccepted <=> total_strategy_laps' = total_laps)
           /\ (pc' = "accepted" <=> total_strategy_laps' = total_laps)
           /\ (total_strategy_laps' = total_laps =>
                  /\ Len(user_strategy') = num_stints
                  /\ PlanLaps(user_strategy') = total_laps)
           /\ (total_strategy_laps' # total_laps =>
                  /\ user_strategy' = << >>
                  /\ pc' = "stints_prompt"
                  /\ msg' = MsgMismatch
                  /\ total_strategy_laps' > PlanLaps(user_strategy)) ]_vars

\* a plan with the wrong sum was just rejected and cleared
C1_Witness ==
    /\ pc = "stints_prompt"
    /\ msg = MsgMismatch
    /\ total_strategy_laps # total_laps
    /\ user_strategy = << >>

\* C2: for every compound of the plan on which the chosen driver has no lap,
\* the baseline of calculate_driver_averages is the mean over that driver's
\* own laps.
C2_FallbackIsDriverMean ==
    \A c \in DOMAIN driver_averages :
        CompoundLaps(laps, driver_code, c) = << >> =>
            RatEq(driver_averages[c],
                  MeanLapTime(LapsOfDriver(laps, driver_code)))

\* C3: once a driver whose number of lap records differs from total_laps is
\* chosen, run_simulation has returned with the message and input_strategy,
\* simulate_lap_times and compare_strategy were never entered;
\* user_strategy and simulated_lap_times are still empty.
C3_GateBeforeSimulation ==
    (driver_code # "None"
        /\ Len(LapsOfDriver(laps, driver_code)) # total_laps) =>
        /\ pc = "returned"
        /\ msg = MsgDidNotFinish
        /\ calls \cap {"input_strategy", "simulate_lap_times",
                       "compare_strategy"} = {}
        /\ user_strategy = << >>
        /\ simulated_lap_times = << >>

C3_Witness ==
    /\ driver_code \in DriverCodes
    /\ Len(LapsOfDriver(laps, driver_code)) = total_laps - 1
    /\ pc = "returned"

\* the stint of the plan that lap i belongs to
StintOfLap(plan, i) ==
    CHOOSE k \in 1..Len(plan) :
        /\ PlanLaps(SubSeq(plan, 1, k - 1)) < i
        /\ i <= PlanLaps(SubSeq(plan, 1, k))

FirstWinner == WinnerRows(results)[1]

FirstRowOf(d) == DriverRows(results, d)[1]

\* a Time value that records a duration (a Timedelta or text that parses)
Recorded(t) == ~ ToTimedelta(t).raised /\ ToTimedelta(t).val.tag = "td"

\* C5: with a recorded winner time, get_driver_race_time returns the
\* winner's elapsed time for the position-1 driver and the winner's elapsed
\* time plus the driver's recorded gap for any other driver with a row.
C5_WinnerTimePlusGap ==
    ("get_driver_race_time" \in calls
        /\ WinnerRows(results) # << >>
        /\ Recorded(FirstWinner.Time)) =>
        LET w == ToTimedelta(FirstWinner.Time).val.v
        IN  /\ exc = ""
            /\ (driver_code = FirstWinner.Abbreviation =>
                   actual_race_time = TD(w))
            /\ (driver_code # FirstWinner.Abbreviation
                    /\ DriverRows(results, driver_code) # << >>
                    /\ Recorded(FirstRowOf(driver_code).Time) =>
                   actual_race_time =
                       TD(w + ToTimedelta(FirstRowOf(driver_code).Time).val.v))

\* winner 1:30:00.000 and a gap of 12.345 s give 1:30:12.345
C5_Witness ==
    /\ "get_driver_race_time" \in calls
    /\ WinnerRows(results) # << >>
    /\ FirstWinner.Time = TD(5400000)
    /\ driver_code # FirstWinner.Abbreviation
    /\ DriverRows(results, driver_code) # << >>
    /\ FirstRowOf(driver_code).Time = TD(12345)
    /\ actual_race_time = TD(5412345)

\* C6: every plan input_strategy accepted contains only the five known
\* compounds.
C6_OnlyKnownCompounds ==
    "input_strategy" \in completed =>
        \A i \in 1..Len(user_strategy) :
            user_strategy[i][1] \in FactorCompounds

\* the stage of the simulator: 0 Uninitialized, 1 SessionLoaded,
\* 2 StrategyAccepted, 3 Simulated, 4 Compared
StageRank ==
    IF "compare_strategy" \in completed THEN 4
    ELSE IF "simulate_lap_times" \in completed THEN 3
    ELSE IF "input_strategy" \in completed THEN 2
    ELSE IF analysis THEN 1
    ELSE 0

ErrorMessages ==
    {MsgNoRaceData, MsgInvalidDriver, MsgDidNotFinish, MsgMismatch}

\* C7: every step keeps the stage or moves it to the next one; a step that
\* reports a failed precondition keeps the stage; and a stage from
\* StrategyAccepted on is only held with the session loaded, a driver of the
\* results who completed every lap, and a plan whose laps sum to the race
\* length.
C7_StagesInOrder ==
    [][ /\ StageRank' \in {StageRank, StageRank + 1}
        /\ (msg' \in ErrorMessages => StageRank' = StageRank)
        /\ (StageRank' >= 2 =>
               /\ analysis'
               /\ driver_code' \in DOMAIN AbbreviationToNum(results)
               /\ Len(LapsOfDriver(laps, driver_code')) = total_laps'
               /\ PlanLaps(user_strategy') = total_laps') ]_vars

C7_Witness ==
    /\ StageRank = 4
    /\ pc = "compared"
    /\ PlanLaps(user_strategy) = total_laps

\* C8: once compare_strategy was entered, get_driver_race_time did not
\* raise: it gave a Timedelta or None, and on None compare_strategy reported
\* that no actual race time was found.
C8_RaceTimeNeverRaises ==
    "compare_strategy" \in calls =>
        /\ exc = ""
        /\ actual_race_time.tag \in {"td", "NaT", "None"}
        /\ (actual_race_time.tag = "None" => msg = MsgNoActualTime)

InputErrorMessages == {MsgInvalidInput, MsgTooFewStints, MsgNonPositive}

\* C9: in input_strategy every invalid input is reported and the prompt at
\* which it was typed comes again, with the stints typed so far kept.
C9_RepromptAtSameStep ==
    [][ (pc \in {"stints_prompt", "stint_prompt"}
            /\ msg' \in InputErrorMessages) =>
           /\ pc' = pc
           /\ stint_num' = stint_num
           /\ user_strategy' = user_strategy ]_vars

LapsOfStint(plan, times, k) ==
    SubSeq(times, PlanLaps(SubSeq(plan, 1, k - 1)) + 1,
           PlanLaps(SubSeq(plan, 1, k)))

\* the deviation, in thousandths of the baseline, that gives a lap on
\* compound c its duration: (duration - baseline * factor) / baseline
DeviationOf(duration, avgs, c) ==
    LET b == avgs[c]
        bf == RatMul(b, Rat(compound_performance_factor(c), 1000))
    IN  RatMul(RatAdd(duration, RatNeg(bf)), Rat(1000 * b.den, b.num))

\* the duration is baseline * factor + deviation * baseline for a deviation
\* np.random.uniform can draw
SampledOn(duration, avgs, c) ==
    /\ c \in DOMAIN avgs
    /\ DeviationOf(duration, avgs, c).den = 1
    /\ DeviationOf(duration, avgs, c).num \in DevLow..(DevHigh - 1)

StintsRun(tbl, d) ==
    {LapsOfDriver(tbl, d)[i].Stint : i \in 1..Len(LapsOfDriver(tbl, d))}

\* the number of the k-th stint a driver ran
KthStint(tbl, d, k) ==
    CHOOSE n \in StintsRun(tbl, d) :
        Cardinality({m \in StintsRun(tbl, d) : m <= n}) = k

\* the laps of the k-th stint a driver ran
KthStintLaps(tbl, d, k) ==
    LET InStint(r) == r.Stint = KthStint(tbl, d, k)
    IN  SelectSeq(LapsOfDriver(tbl, d), InStint)

NotAvailable == << "N/A", 0 >>

\* C12: the table compare_strategy prints has one row per stint index from 1
\* to max(number of stints the driver ran, number of planned stints); row k
\* shows the compound and the lap count of the driver's k-th stint and entry
\* k of the plan, and N/A on the side that has no k-th stint.
C12_StintTableRows ==
    (pc = "compared" /\ actual_race_time.tag # "None") =>
        LET ran == Cardinality(StintsRun(laps, driver_code))
            planned == Len(user_strategy)
        IN  /\ Len(table) = MaxOf({ran, planned})
            /\ \A k \in 1..Len(table) :
                   /\ table[k].stint = k
                   /\ table[k].actual =
                          IF k <= ran
                          THEN << KthStintLaps(laps, driver_code, k)[1].Compound,
                                  Len(KthStintLaps(laps, driver_code, k)) >>
                          ELSE NotAvailable
                   /\ table[k].sim =
                          IF k <= planned THEN user_strategy[k]
                          ELSE NotAvailable

\* a driver who ran three stints is compared with a plan of two: the third
\* row has N/A on the planned side
C12_Witness ==
    /\ pc = "compared"
    /\ Len(user_strategy) = 2
    /\ Len(table) = 3
    /\ table[3].sim = NotAvailable
    /\ table[3].actual # NotAvailable

\* C13: every call of get_fastest_lap_data returns a pair, whatever the
\* session and the provider do, so the caller can unpack it into two values.
C13_FastestLapIsPair ==
    "get_fastest_lap_data" \in calls =>
        /\ fastest.kind = "pair"
        /\ analyze_fastest_lap(fastest).exc = ""

\* C14: every call of create_driver_mappings returns a pair of mappings
\* with one entry per row of the results that are inverses of each other;
\* without a loaded session it returns a pair of empty mappings.
C14_InverseMappingsAlways ==
    "create_driver_mappings" \in calls =>
        /\ mappings.kind = "pair"
        /\ session # "None" =>
               LET n2a == mappings.num_to_abbreviation
                   a2n == mappings.abbreviation_to_num
               IN  /\ Cardinality(DOMAIN n2a) = Len(results)
                   /\ Cardinality(DOMAIN a2n) = Len(results)
                   /\ \A n \in DOMAIN n2a : a2n[n2a[n]] = n
                   /\ \A a \in DOMAIN a2n : n2a[a2n[a]] = a

\* the (driver, stint, compound) key of a record
KeyOf(r) == << r.Driver, r.Stint, r.Compound >>

EventNames(cal) == {cal[i].EventName : i \in 1..Len(cal)}

\* C16: the year main receives from get_race_details is never below 2018:
\* an input that is no integer or an integer below 2018 is reported, no
\* calendar is fetched for it and the year prompt comes again; and a race
\* typed as a number is only returned as the event name of a round of the
\* calendar of that year, never as the number itself.
C16_YearAndRoundChecked ==
    [][ /\ (year' # 0 => year' >= 2018)
        /\ (\A y \in fetched' : y >= 2018)
        /\ (mpc' = "race_prompt" => gyear' >= 2018)
        /\ ((mpc = "year_prompt" /\ gyear' # gyear /\ gyear' < 2018) =>
               msg' = MsgYearTooEarly)
        /\ ((mpc = "year_prompt" /\ msg' \in {MsgInvalidYear, MsgYearTooEarly}) =>
               /\ mpc' = "year_prompt"
               /\ fetched' = fetched
               /\ year' = year
               /\ race' = race)
        /\ ((mpc = "race_prompt" /\ mpc' = "mode_prompt") =>
               /\ year' = gyear
               /\ ~ IsDigit(race')
               /\ \/ race' \in EventNames(Calendar(year'))
                  \/ race' \in RaceInputs)
        /\ ((mpc = "race_prompt" /\ msg' = MsgNoSuchRound) =>
               /\ mpc' = "race_prompt"
               /\ race' = race) ]_vars

\* round 2 of 2023 was picked by its number; in the next iteration a
\* calendar was fetched for 2018 and then 2017 was typed and refused
C16_Witness ==
    /\ races_done = 1
    /\ year = 2023
    /\ race = "Saudi Arabian Grand Prix"
    /\ mpc = "year_prompt"
    /\ fetched = {2018}
    /\ gyear = 2017
    /\ msg = MsgYearTooEarly

\* C17: with an actual race time that is a duration, compare_strategy writes
\* "slower" exactly when the simulated total is strictly greater than the
\* actual time and "faster" otherwise, equal totals included; the difference
\* it prints is |simulated - actual|, never negative.
C17_SlowerIffStrictlyGreater ==
    (pc = "compared" /\ actual_race_time.tag = "td") =>
        LET actual == TimeToRat(actual_race_time)
            gap == RatAdd(total_simulated_time, RatNeg(actual))
        IN  /\ verdict.label \in {"slower", "faster"}
            /\ (verdict.label = "slower" <=> RatLT(actual, total_simulated_time))
            /\ (verdict.label = "faster" <=> RatLE(total_simulated_time, actual))
            /\ RatLE(Rat(0, 1), verdict.diff)
            /\ \/ RatEq(verdict.diff, gap)
               \/ RatEq(verdict.diff, RatNeg(gap))

\* the simulated total equals the actual race time and is labelled faster
C17_Witness ==
    /\ pc = "compared"
    /\ actual_race_time.tag = "td"
    /\ RatEq(total_simulated_time, TimeToRat(actual_race_time))
    /\ verdict.label = "faster"
    /\ verdict.diff = Rat(0, 1)

\* C18: once simulate_lap_times has computed the baselines, every compound
\* of the stored plan has one, so no stint takes the branch of the fixed
\* 90-second default: every lap it returns is baseline * factor + deviation
\* * baseline of its stint's compound.
C18_DefaultBranchNeverTaken ==
    "simulate_lap_times" \in calls =>
        /\ \A i \in 1..Len(user_strategy) :
               Upper(user_strategy[i][1]) \in DOMAIN driver_averages
        /\ \A j \in 1..Len(simulated_lap_times) :
               SampledOn(simulated_lap_times[j], driver_averages,
                         Upper(user_strategy[StintOfLap(user_strategy, j)][1]))

\* a plan with a compound the driver never ran was simulated from the
\* fallback baseline
C18_Witness ==
    /\ pc = "simulated"
    /\ Len(simulated_lap_times) = total_laps
    /\ \E i \in 1..Len(user_strategy) :
           CompoundLaps(laps, driver_code, Upper(user_strategy[i][1])) = << >>

\* C19: a step at the mode prompt that ends in a rejection by validate_data
\* comes back to the mode prompt with year and race as they were; every
\* valid mode choice executes load_session for that year and race; and the
\* mode prompt is only left, and the prompts for another race or for
\* continuing only reached, with a session that was loaded with data.
C19_RejectionReturnsToModePrompt ==
    [][ /\ (mpc = "mode_prompt" =>
               /\ year' = year
               /\ race' = race
               /\ \/ msg' = MsgInvalidOption /\ loads' = loads
                       /\ rejected' = rejected /\ mpc' = "mode_prompt"
                  \/ loads' >= loads + 1)
        /\ ((mpc = "mode_prompt" /\ rejected' = rejected + 1) =>
               /\ msg' = MsgNoData
               /\ session' # "ok"
               /\ mpc' = "mode_prompt"
               /\ loads' = loads + 1)
        /\ ((mpc = "mode_prompt" /\ mpc' # "mode_prompt") =>
               /\ session' = "ok"
               /\ rejected' = rejected
               /\ mpc' \in {"analyze_prompt", "sim", "raised"})
        /\ ((rejected' > 0
                /\ mpc' \in {"year_prompt", "race_prompt", "continue_prompt"}) =>
               session' = "ok") ]_vars

\* the load for the selected race was just rejected: the mode prompt is up
\* again for the same year and race
C19_Witness ==
    /\ mpc = "mode_prompt"
    /\ msg = MsgNoData
    /\ rejected = 1
    /\ loads = 1
    /\ session = "empty"
    /\ year = 2018
    /\ race = "Bahrain Grand Prix"

\* compound names in upper case
UpperCased == {"SOFT", "MEDIUM", "HARD", "ULTRA", "WET", "INTERMEDIATE"}

\* the entries a line typed at the stint prompt can add to the plan
TypedStints ==
    {<< Upper(Split(line)[1]), IntOf(Split(line)[2]) >> :
        line \in {l \in StintInfoInputs :
                     Len(Split(l)) = 2 /\ ~ IntRaises(Split(l)[2])}}

\* C20: every attempt of input_strategy starts from an empty plan and only
\* grows it by the stint just typed, so when input_strategy returns,
\* user_strategy holds the stints of the accepted attempt only: as many as
\* the stint count typed in that attempt, at least 2, each with a positive
\* lap count and an upper-cased compound.
C20_PlanIsFinalAttempt ==
    [][ /\ (pc' = "stints_prompt" => user_strategy' = << >>)
        /\ (pc' = "stint_prompt" =>
               /\ Len(user_strategy') = stint_num' - 1
               /\ stint_num' <= num_stints')
        /\ ((pc = "stint_prompt" /\ pc' \in {"stint_prompt", "accepted"}
                /\ user_strategy' # user_strategy) =>
               \E e \in TypedStints : user_strategy' = Append(user_strategy, e))
        /\ ("input_strategy" \in completed' =>
               /\ Len(user_strategy') = num_stints'
               /\ Len(user_strategy') >= 2
               /\ \A i \in 1..Len(user_strategy') :
                      /\ user_strategy'[i][2] > 0
                      /\ user_strategy'[i][1] \in UpperCased) ]_vars

\* input_strategy returned with a plan of three stints
C20_Witness ==
    /\ pc = "accepted"
    /\ "input_strategy" \in completed
    /\ num_stints = 3
    /\ Len(user_strategy) = 3

====
